---- MODULE Spec2Model ----
(***************************************************************************)
(* Model of the Team-Aden repository:                                      *)
(*   src/team_belief_dag.py  TeamBeliefDag (builder stub) and DagRegMin    *)
(*                           (next_strategy / observe_utility)             *)
(*   src/parser.py           Game.read_efg                                 *)
(*                                                                         *)
(* Two specifications share the module.  Spec drives a DagRegMin over a    *)
(* small set of belief DAGs and regret tables; SpecGame drives             *)
(* Game.read_efg over small files and then TeamBeliefDag.efg_to_tbdag.     *)
(*                                                                         *)
(* Python dictionaries are functions; a dictionary keyed both by nodes and *)
(* by (node, action) tuples (x, u) is keyed here by <<node>> and           *)
(* <<node, action>>.  Python numbers are exact rationals <<num, den>>      *)
(* (floating rounding is not modelled).  A raised Python exception is the  *)
(* value of err, and the tables keep what was written before the raise.    *)
(***************************************************************************)
EXTENDS Integers, Sequences, FiniteSets, TLC

VARIABLES
    dag,          \* DagRegMin.dag: the belief DAG handed to the constructor
    regret,       \* DagRegMin.regret
    x,            \* DagRegMin.x
    x_prime,      \* DagRegMin.x_prime
    u,            \* the local u of the last observe_utility call, as it was left
    gradient,     \* argument of the last observe_utility call
    trace,        \* nodes in the order the last call's main loop reached them
    op,           \* last operation called on the solver
    err,          \* exception raised by the last call, or "none"
    pre_regret,   \* regret as it was when the last call started
    file,         \* lines of the file given to read_efg
    order,        \* Game.order
    nodes,        \* Game.nodes
    infosets,     \* Game.infosets
    hist_to_infoset, \* Game.hist_to_infoset
    players,      \* Game.players
    pstat,        \* "new", "ok" (read_efg returned) or "failed" (it raised)
    perr,         \* the ValueError raised by read_efg
    team_players, \* argument of the last efg_to_tbdag call
    tbdag         \* what efg_to_tbdag returned

solverVars == <<dag, regret, x, x_prime, u, gradient, trace, op, err, pre_regret>>
gameVars == <<file, order, nodes, infosets, hist_to_infoset, players, pstat, perr,
              team_players, tbdag>>
vars == <<solverVars, gameVars>>

----------------------------------------------------------------------------
(* Bounds *)

MaxRegret == 1
MaxLines == 3

----------------------------------------------------------------------------
(* Exact arithmetic on numbers <<num, den>>, den > 0, in lowest terms *)

RECURSIVE Gcd(_, _)
Gcd(a, b) == IF b = 0 THEN a ELSE Gcd(b, a % b)

Abs(n) == IF n < 0 THEN -n ELSE n

Norm(n, d) ==
    LET s == IF d < 0 THEN -1 ELSE 1
        g == Gcd(Abs(n), Abs(d))
    IN  <<(s * n) \div g, (s * d) \div g>>

Num(n) == <<n, 1>>
Zero == Num(0)
One == Num(1)

RAdd(p, q) == Norm(p[1] * q[2] + q[1] * p[2], p[2] * q[2])
RSub(p, q) == Norm(p[1] * q[2] - q[1] * p[2], p[2] * q[2])
RMul(p, q) == Norm(p[1] * q[1], p[2] * q[2])
RDiv(p, q) == Norm(p[1] * q[2], p[2] * q[1])
RLess(p, q) == p[1] * q[2] < q[1] * p[2]
RMax(p, q) == IF RLess(p, q) THEN q ELSE p

----------------------------------------------------------------------------
(* Dictionaries *)

EmptyDict == <<>>
NK(n) == <<n>>
EK(n, a) == <<n, a>>
Put(f, k, v) == [j \in DOMAIN f \cup {k} |-> IF j = k THEN v ELSE f[j]]
Range(s) == {s[i] : i \in 1..Len(s)}

----------------------------------------------------------------------------
(* Belief DAGs handed to DagRegMin(dag).                                   *)
(* The solver reads five attributes of its dag: nodes, root, active_nodes, *)
(* child_of and parent_of.  nodes is the iteration order of dag.nodes;     *)
(* node_type[n] is n.node_type; active_nodes lists the decision nodes      *)
(* top-down; child_of[n] lists n's (action, child) items in dictionary     *)
(* order; parent_of[n] lists the (parent, action) entries leading to n:    *)
(* these are the tuples under which next_strategy stores x[(node, action)] *)
(* and observe_utility reads u[(node, action)].                            *)

\* r -L-> a -l-> m,  r -R-> b -l-> m,  m -l-> t1 : m has two parents
DiamondDag ==
    [ nodes        |-> <<"r", "a", "b", "m", "t1">>,
      root         |-> "r",
      active_nodes |-> <<"r", "a", "b", "m">>,
      node_type    |-> [n \in {"r", "a", "b", "m", "t1"} |->
                          IF n = "t1" THEN "terminal" ELSE "player"],
      child_of     |-> [n \in {"r", "a", "b", "m", "t1"} |->
                          CASE n = "r" -> << <<"L", "a">>, <<"R", "b">> >>
                            [] n = "a" -> << <<"l", "m">> >>
                            [] n = "b" -> << <<"l", "m">> >>
                            [] n = "m" -> << <<"l", "t1">> >>
                            [] OTHER -> << >>],
      parent_of    |-> [n \in {"r", "a", "b", "m", "t1"} |->
                          CASE n = "r" -> << >>
                            [] n = "a" -> << <<"r", "L">> >>
                            [] n = "b" -> << <<"r", "R">> >>
                            [] n = "m" -> << <<"a", "l">>, <<"b", "l">> >>
                            [] n = "t1" -> << <<"m", "l">> >>] ]

\* r -L-> m and r -R-> m : m is reached by two actions of the same parent
TwinDag ==
    [ nodes        |-> <<"r", "m", "t1", "t2">>,
      root         |-> "r",
      active_nodes |-> <<"r", "m">>,
      node_type    |-> [n \in {"r", "m", "t1", "t2"} |->
                          IF n \in {"t1", "t2"} THEN "terminal" ELSE "player"],
      child_of     |-> [n \in {"r", "m", "t1", "t2"} |->
                          CASE n = "r" -> << <<"L", "m">>, <<"R", "m">> >>
                            [] n = "m" -> << <<"l", "t1">>, <<"r", "t2">> >>
                            [] OTHER -> << >>],
      parent_of    |-> [n \in {"r", "m", "t1", "t2"} |->
                          CASE n = "r" -> << >>
                            [] n = "m" -> << <<"r", "L">>, <<"r", "R">> >>
                            [] n = "t1" -> << <<"m", "l">> >>
                            [] n = "t2" -> << <<"m", "r">> >>] ]

\* r -a-> t1, r -b-> t2, r -c-> t3 : one decision, three actions
TreeDag ==
    [ nodes        |-> <<"r", "t1", "t2", "t3">>,
      root         |-> "r",
      active_nodes |-> <<"r">>,
      node_type    |-> [n \in {"r", "t1", "t2", "t3"} |->
                          IF n = "r" THEN "player" ELSE "terminal"],
      child_of     |-> [n \in {"r", "t1", "t2", "t3"} |->
                          IF n = "r"
                          THEN << <<"a", "t1">>, <<"b", "t2">>, <<"c", "t3">> >>
                          ELSE << >>],
      parent_of    |-> [n \in {"r", "t1", "t2", "t3"} |->
                          CASE n = "r" -> << >>
                            [] n = "t1" -> << <<"r", "a">> >>
                            [] n = "t2" -> << <<"r", "b">> >>
                            [] n = "t3" -> << <<"r", "c">> >>] ]

Dags == {DiamondDag, TwinDag, TreeDag}

\* the actions of child_of[n], in iteration order
Actions(d, n) == [i \in 1..Len(d.child_of[n]) |-> d.child_of[n][i][1]]
ActionSet(d, n) == Range(Actions(d, n))
Child(d, n, a) ==
    LET i == CHOOSE j \in 1..Len(d.child_of[n]) : d.child_of[n][j][1] = a
    IN  d.child_of[n][i][2]
Terminals(d) == {n \in Range(d.nodes) : d.node_type[n] = "terminal"}

\* the regret tables a caller can install on dag d: one number per
\* (active node, action), or the empty table __init__ leaves
RegretVals == {Num(k) : k \in (-1)..MaxRegret}
RegretTables(d) ==
    LET act == Range(d.active_nodes)
        pairs == {p \in act \X UNION {ActionSet(d, n) : n \in act} :
                    p[2] \in ActionSet(d, p[1])}
    IN  {[k \in {NK(n) : n \in act} |->
            [a \in ActionSet(d, k[1]) |-> f[<<k[1], a>>]]] :
         f \in [pairs -> RegretVals]}

GradVals == {Num(-1), Num(2)}
Gradients(d) == [Terminals(d) -> GradVals]

----------------------------------------------------------------------------
(* DagRegMin.next_strategy *)

RECURSIVE SumSeq(_)
SumSeq(s) == IF s = <<>> THEN Zero ELSE RAdd(s[1], SumSeq(Tail(s)))

\* lines 32-36: every node's x entry becomes {} and then 1 when the node has an
\* action; every x_prime[node][action] becomes 1.  Older (node, action) entries
\* of x stay.
ResetTables(d, x0, xp0) ==
    LET ks == {NK(n) : n \in Range(d.nodes)}
    IN  [ x |-> [k \in DOMAIN x0 \cup ks |->
                    IF k \in ks
                    THEN (IF Len(d.child_of[k[1]]) > 0 THEN One ELSE EmptyDict)
                    ELSE x0[k]],
          x_prime |-> [k \in DOMAIN xp0 \cup ks |->
                    IF k \in ks
                    THEN [a \in ActionSet(d, k[1]) |-> One]
                    ELSE xp0[k]] ]

\* line 42: S = sum(max(regret[node][action], 0) for action in child_of[node])
PositiveSum(r, acts) == SumSeq([i \in 1..Len(acts) |-> RMax(r[acts[i]], Zero)])

\* RegretMatch with the operands of line 49's subtraction exchanged (S - regret):
\* C4 does not survive it
RegretMatchSwapped(r, S, n) ==
    IF S = Zero THEN RDiv(One, Num(n)) ELSE RDiv(RMax(RSub(S, r), Zero), S)

\* lines 45-49: the probability of one action, from its regret r, the node's
\* positive sum S and the node's number of actions n
RegretMatch(r, S, n) ==
    IF S = Zero THEN RDiv(One, Num(n)) ELSE RDiv(RMax(RSub(r, S), Zero), S)

\* lines 39-51: the loop body for one active node; st = [x, x_prime, trace, err]
ForwardNode(d, reg, st, node) ==
    LET st0 == [st EXCEPT !.trace = Append(@, node)]
        parents == d.parent_of[node]
        acts == Actions(d, node)
    IN  IF node # d.root /\ \E i \in 1..Len(parents) :
                                 EK(parents[i][1], parents[i][2]) \notin DOMAIN st.x
        THEN [st0 EXCEPT !.err = "KeyError"]
        ELSE
        LET x1 == IF node # d.root
                  THEN Put(st.x, NK(node),
                           SumSeq([i \in 1..Len(parents) |->
                                     st.x[EK(parents[i][1], parents[i][2])]]))
                  ELSE st.x
        IN  IF Len(acts) > 0 /\ (\/ NK(node) \notin DOMAIN reg
                                 \/ \E a \in Range(acts) : a \notin DOMAIN reg[NK(node)])
            THEN [st0 EXCEPT !.x = x1, !.err = "KeyError"]
            ELSE
            LET S == PositiveSum(reg[NK(node)], acts)
                xp == [a \in Range(acts) |->
                         RegretMatch(reg[NK(node)][a], S, Len(acts))]
                x2 == [k \in DOMAIN x1 \cup {EK(node, a) : a \in Range(acts)} |->
                         IF Len(k) = 2 /\ k[1] = node /\ k[2] \in Range(acts)
                         THEN RMul(xp[k[2]], x1[NK(node)])
                         ELSE x1[k]]
            IN  [st0 EXCEPT !.x = x2,
                            !.x_prime = IF Len(acts) > 0
                                        THEN Put(st.x_prime, NK(node), xp)
                                        ELSE @]

\* line 38: for node in self.dag.active_nodes, stopping at the first exception
RECURSIVE ForwardLoop(_, _, _, _)
ForwardLoop(d, reg, st, i) ==
    IF i > Len(d.active_nodes) \/ st.err # "none" THEN st
    ELSE ForwardLoop(d, reg, ForwardNode(d, reg, st, d.active_nodes[i]), i + 1)

next_strategy(d, reg, x0, xp0) ==
    LET t == ResetTables(d, x0, xp0)
    IN  ForwardLoop(d, reg,
                    [x |-> t.x, x_prime |-> t.x_prime, trace |-> <<>>, err |-> "none"],
                    1)

NextStrategy ==
    /\ pstat = "solver"
    /\ LET r == next_strategy(dag, regret, x, x_prime)
       IN  /\ x' = r.x
           /\ x_prime' = r.x_prime
           /\ trace' = r.trace
           /\ err' = r.err
    /\ op' = "next_strategy"
    /\ pre_regret' = regret
    /\ UNCHANGED <<dag, regret, u, gradient, gameVars>>

----------------------------------------------------------------------------
(* DagRegMin.observe_utility *)

\* lines 57-60: u = {}, then u[node] = 0 for every node that is not terminal
InitialU(d) ==
    [k \in {NK(n) : n \in {m \in Range(d.nodes) : d.node_type[m] # "terminal"}} |-> Zero]

\* line 63, one term u[(node, action)] * self.x_prime[(node, action)]: the
\* exception it raises.  Both lookups use the tuple as key; an entry of x_prime
\* is a dictionary, which a number cannot be multiplied by.
TermError(uu, xp, node, a) ==
    IF EK(node, a) \notin DOMAIN uu THEN "KeyError"
    ELSE IF EK(node, a) \notin DOMAIN xp THEN "KeyError"
    ELSE "TypeError"

\* lines 67-68: for parent in parent_of[node]: u[parent] += u[node]
RECURSIVE Propagate(_, _, _, _)
Propagate(st, parents, node, i) ==
    IF i > Len(parents) \/ st.err # "none" THEN st
    ELSE LET k == EK(parents[i][1], parents[i][2])
         IN  IF k \notin DOMAIN st.u
             THEN [st EXCEPT !.err = "KeyError"]
             ELSE Propagate([st EXCEPT !.u[k] = RAdd(@, st.u[NK(node)])],
                            parents, node, i + 1)

\* lines 63-68: the loop body for one active node; st = [u, regret, trace, err].
\* The sum of line 63 has a value only when the node has no action (every term
\* raises), so the loop of lines 64-65 runs only over an empty action list.
BackwardNode(d, xp, st, node) ==
    LET st0 == [st EXCEPT !.trace = Append(@, node)]
        acts == Actions(d, node)
    IN  IF NK(node) \notin DOMAIN st.u
        THEN [st0 EXCEPT !.err = "KeyError"]
        ELSE IF Len(acts) > 0
        THEN [st0 EXCEPT !.err = TermError(st.u, xp, node, acts[1])]
        ELSE Propagate([st0 EXCEPT !.u[NK(node)] = RAdd(@, Zero)],
                       d.parent_of[node], node, 1)

\* line 62: for node in self.dag.active_nodes, stopping at the first exception
RECURSIVE BackwardLoop(_, _, _, _)
BackwardLoop(d, xp, st, i) ==
    IF i > Len(d.active_nodes) \/ st.err # "none" THEN st
    ELSE BackwardLoop(d, xp, BackwardNode(d, xp, st, d.active_nodes[i]), i + 1)

\* the gradient argument g is never read
observe_utility(d, reg, xp, g) ==
    BackwardLoop(d, xp,
                 [u |-> InitialU(d), regret |-> reg, trace |-> <<>>, err |-> "none"],
                 1)

ObserveUtility(g) ==
    /\ pstat = "solver"
    /\ LET r == observe_utility(dag, regret, x_prime, g)
       IN  /\ u' = r.u
           /\ regret' = r.regret
           /\ trace' = r.trace
           /\ err' = r.err
    /\ gradient' = g
    /\ op' = "observe_utility"
    /\ pre_regret' = regret
    /\ UNCHANGED <<dag, x, x_prime, gameVars>>

----------------------------------------------------------------------------
(* The solver's specification: DagRegMin(dag) with a regret table installed *)
(* by the caller (or left empty, as __init__ leaves it), then any sequence  *)
(* of next_strategy() and observe_utility(gradient) calls.                  *)

GameIdle ==
    /\ file = <<>>
    /\ order = <<>>
    /\ nodes = <<>>
    /\ infosets = <<>>
    /\ hist_to_infoset = <<>>
    /\ players = <<>>
    /\ perr = [line |-> 0, numbered |-> FALSE, raised |-> FALSE]
    /\ team_players = <<>>
    /\ tbdag = "unbuilt"

Init ==
    /\ dag \in Dags
    /\ regret \in RegretTables(dag) \cup {EmptyDict}
    /\ x = EmptyDict
    /\ x_prime = EmptyDict
    /\ u = EmptyDict
    /\ gradient = EmptyDict
    /\ trace = <<>>
    /\ op = "init"
    /\ err = "none"
    /\ pre_regret = regret
    /\ pstat = "solver"
    /\ GameIdle

Next ==
    \/ NextStrategy
    \/ \E g \in Gradients(dag) : ObserveUtility(g)

Spec == Init /\ [][Next]_vars

----------------------------------------------------------------------------
(* Claims about DagRegMin, checked under Spec *)

Active == Range(dag.active_nodes)

\* the caller installed a regret entry for every (active node, action)
RegretAllocated == DOMAIN regret = {NK(n) : n \in Active}

\* the last call was next_strategy() and it returned
StrategyReturned == op = "next_strategy" /\ err = "none"

\* the last call was observe_utility(gradient), made after a next_strategy()
\* that returned
ObservedAfterStrategy ==
    op = "observe_utility" /\ RegretAllocated /\ DOMAIN x_prime # {}

\* the utility the backward pass is to give node n: the gradient's value at a
\* terminal node, the x_prime-weighted sum of the children's utilities elsewhere
RECURSIVE Utility(_)
Utility(n) ==
    IF dag.node_type[n] = "terminal" THEN gradient[n]
    ELSE SumSeq([i \in 1..Len(dag.child_of[n]) |->
                   RMul(x_prime[NK(n)][dag.child_of[n][i][1]],
                        Utility(dag.child_of[n][i][2]))])

\* C1: after next_strategy(), at every decision node with
\* S = sum of max(regret, 0): x_prime is 1/|actions| for every action when
\* S = 0, and max(regret, 0) / S otherwise.
C1_RegretMatching ==
    StrategyReturned =>
        \A n \in Active : \A a \in ActionSet(dag, n) :
            LET S == PositiveSum(regret[NK(n)], Actions(dag, n))
            IN  x_prime[NK(n)][a] =
                    IF S = Zero
                    THEN RDiv(One, Num(Len(Actions(dag, n))))
                    ELSE RDiv(RMax(regret[NK(n)][a], Zero), S)

\* C2: after every next_strategy(), the x_prime values of every decision node
\* sum to 1 over the node's actions.
C2_ProbabilityConservation ==
    StrategyReturned =>
        \A n \in Active :
            SumSeq([i \in 1..Len(Actions(dag, n)) |->
                      x_prime[NK(n)][Actions(dag, n)[i]]]) = One

\* C3: after next_strategy(), x[root] = 1 and every other belief node's x is
\* the sum over its (parent, action) entries of x[parent] * x_prime[parent][action].
C3_Reach ==
    StrategyReturned =>
        /\ x[NK(dag.root)] = One
        /\ \A n \in Range(dag.nodes) \ {dag.root} :
              x[NK(n)] =
                  SumSeq([i \in 1..Len(dag.parent_of[n]) |->
                            RMul(x[NK(dag.parent_of[n][i][1])],
                                 x_prime[NK(dag.parent_of[n][i][1])][dag.parent_of[n][i][2]])])

\* C4: after next_strategy(), an action whose regret is negative has positive
\* probability only if no action of its node has positive regret.
C4_NoMassOnNegativeRegret ==
    StrategyReturned =>
        \A n \in Active : \A a \in ActionSet(dag, n) :
            (RLess(regret[NK(n)][a], Zero) /\ RLess(Zero, x_prime[NK(n)][a]))
                => \A b \in ActionSet(dag, n) : ~RLess(Zero, regret[NK(n)][b])

\* C4's case: next_strategy() returned on a node holding an action of negative
\* regret beside one of positive regret
C4_Witness ==
    /\ StrategyReturned
    /\ \E n \in Active : \E a, b \in ActionSet(dag, n) :
          /\ RLess(regret[NK(n)][a], Zero)
          /\ RLess(Zero, regret[NK(n)][b])
          /\ x_prime[NK(n)][a] = Zero

\* C5: observe_utility(gradient) after next_strategy() returns and has added
\* u[node] - u[(node, a)] to every regret[node][a].
C5_RegretUpdate ==
    ObservedAfterStrategy =>
        /\ err = "none"
        /\ \A n \in Active : \A a \in ActionSet(dag, n) :
              regret[NK(n)][a] =
                  RAdd(pre_regret[NK(n)][a],
                       RSub(Utility(n), Utility(Child(dag, n, a))))

\* C6: in observe_utility, the utility of a node with several incoming
\* (parent, action) entries is put in each entry's own slot u[(parent, action)],
\* and the parent's own u[parent] is its x_prime-weighted value, with nothing
\* added to it once per entry.
C6_PerEdgeAttribution ==
    ObservedAfterStrategy =>
        \A n \in Range(dag.nodes) :
            Len(dag.parent_of[n]) > 1 =>
                \A i \in 1..Len(dag.parent_of[n]) :
                    LET p == dag.parent_of[n][i][1]
                        a == dag.parent_of[n][i][2]
                    IN  /\ EK(p, a) \in DOMAIN u
                        /\ u[EK(p, a)] = Utility(n)
                        /\ u[NK(p)] = Utility(p)

\* the position of node n in the processing order of the last call (0: not reached)
Position(n) ==
    IF n \in Range(trace) THEN CHOOSE i \in 1..Len(trace) : trace[i] = n ELSE 0

\* C7: observe_utility reaches a node only after every decision node among its
\* children has been processed in the same call; next_strategy reaches a node
\* only after all of its parents.
C7_ProcessingOrder ==
    /\ op = "observe_utility" =>
          \A n \in Range(trace) : \A a \in ActionSet(dag, n) :
              LET c == Child(dag, n, a)
              IN  c \in Active => (Position(c) > 0 /\ Position(c) < Position(n))
    /\ op = "next_strategy" =>
          \A n \in Range(trace) : \A i \in 1..Len(dag.parent_of[n]) :
              LET p == dag.parent_of[n][i][1]
              IN  Position(p) > 0 /\ Position(p) < Position(n)

\* C8: observe_utility before any next_strategy has populated x_prime fails
\* with InconsistentStateError and leaves the regret table as it was.
C8_InconsistentState ==
    (op = "observe_utility" /\ DOMAIN x_prime = {}) =>
        /\ err = "InconsistentStateError"
        /\ regret = pre_regret

----------------------------------------------------------------------------
(* Game.read_efg.  A line is the sequence of its whitespace-separated      *)
(* tokens (the blank line is <<>>); a directive prefix such as "node "     *)
(* is the first token followed by at least one more.                       *)

\* str.split('=', 1) of the tokens that contain '='
EqSplit ==
    [t \in {"H=0.5", "T=0.5", "1=1", "2=-1", "1=-1", "2=1", "1=x"} |->
        CASE t = "H=0.5" -> <<"H", "0.5">>
          [] t = "T=0.5" -> <<"T", "0.5">>
          [] t = "1=1"   -> <<"1", "1">>
          [] t = "2=-1"  -> <<"2", "-1">>
          [] t = "1=-1"  -> <<"1", "-1">>
          [] t = "2=1"   -> <<"2", "1">>
          [] t = "1=x"   -> <<"1", "x">>]

\* float(s) and int(s) on the literals they accept; they raise ValueError elsewhere
FloatOf ==
    [t \in {"0.5", "1", "-1", "2"} |->
        CASE t = "0.5" -> <<1, 2>>
          [] t = "1"   -> Num(1)
          [] t = "-1"  -> Num(-1)
          [] t = "2"   -> Num(2)]
IntOf ==
    [t \in {"1", "2", "-1"} |-> CASE t = "1" -> 1 [] t = "2" -> 2 [] t = "-1" -> -1]

NoError == [line |-> 0, numbered |-> FALSE, raised |-> FALSE]
\* raise ValueError(f"Line {line_num}: ...")
LineError(ln) == [line |-> ln, numbered |-> TRUE, raised |-> TRUE]
\* the ValueError of float() or int(): its message holds no line number
ConversionError(ln) == [line |-> ln, numbered |-> FALSE, raised |-> TRUE]

\* index of the first token equal to w among t[lo..Len(t)-1], or 0: where
\* split(" w ", 1) cuts (the separator needs text on both sides)
FirstIndex(t, w, lo) ==
    LET hits == {j \in lo..(Len(t) - 1) : t[j] = w}
    IN  IF hits = {} THEN 0 ELSE CHOOSE j \in hits : \A k \in hits : j <= k

\* lines 100-105: the chance tokens t[i..]; acc = [actions, action_probs, err]
RECURSIVE ChanceTokens(_, _, _, _)
ChanceTokens(t, i, ln, acc) ==
    IF i > Len(t) THEN acc
    ELSE IF t[i] \notin DOMAIN EqSplit
    THEN [acc EXCEPT !.err = LineError(ln)]
    ELSE LET kv == EqSplit[t[i]]
         IN  IF kv[2] \notin DOMAIN FloatOf
             THEN [acc EXCEPT !.actions = Append(@, kv[1]),
                              !.err = ConversionError(ln)]
             ELSE ChanceTokens(t, i + 1, ln,
                      [acc EXCEPT !.actions = Append(@, kv[1]),
                                  !.action_probs = Put(@, kv[1], FloatOf[kv[2]])])

\* lines 120-126: the leaf tokens t[i..]; acc = [payoffs, players_set, err]
RECURSIVE LeafTokens(_, _, _, _)
LeafTokens(t, i, ln, acc) ==
    IF i > Len(t) THEN acc
    ELSE IF t[i] \notin DOMAIN EqSplit
    THEN [acc EXCEPT !.err = LineError(ln)]
    ELSE LET kv == EqSplit[t[i]]
         IN  IF kv[1] \notin DOMAIN IntOf \/ kv[2] \notin DOMAIN FloatOf
             THEN [acc EXCEPT !.err = ConversionError(ln)]
             ELSE LeafTokens(t, i + 1, ln,
                      [acc EXCEPT !.payoffs = Put(@, IntOf[kv[1]], FloatOf[kv[2]]),
                                  !.players_set = @ \cup {IntOf[kv[1]]}])

\* the Node dataclass, __post_init__ applied
Node(path, node_type, player, actions, action_probs, payoffs) ==
    [path |-> path, node_type |-> node_type, player |-> player,
     actions |-> actions, action_probs |-> action_probs, payoffs |-> payoffs]

RECURSIVE MapPaths(_, _, _)
MapPaths(h, paths, name) ==
    IF paths = <<>> THEN h
    ELSE MapPaths(Put(h, paths[1], name), Tail(paths), name)

\* lines 61-76: an "infoset " line
InfosetLine(g, t, ln) ==
    LET j == FirstIndex(t, "nodes", 3)
    IN  IF j = 0 THEN [g EXCEPT !.err = LineError(ln)]
        ELSE LET name == SubSeq(t, 2, j - 1)
                 paths == SubSeq(t, j + 1, Len(t))
             IN  [g EXCEPT
                    !.infosets = Put(@, name, [name |-> name, nodes |-> paths]),
                    !.hist_to_infoset = MapPaths(@, paths, name)]

\* lines 79-155: a "node " line
NodeLine(g, t, ln) ==
    IF Len(t) < 3 THEN [g EXCEPT !.err = LineError(ln)]
    ELSE
    LET path == t[2]
        g1 == [g EXCEPT !.order = Append(@, path)]
    IN  IF Len(t) >= 5 /\ t[3] = "chance" /\ t[4] = "actions"
        THEN LET r == ChanceTokens(t, 5, ln,
                        [actions |-> <<>>, action_probs |-> EmptyDict, err |-> NoError])
             IN  IF r.err.raised THEN [g1 EXCEPT !.err = r.err]
                 ELSE [g1 EXCEPT !.nodes = Put(@, path,
                          Node(path, "chance", "None", r.actions, r.action_probs,
                               EmptyDict))]
        ELSE IF Len(t) >= 5 /\ t[3] = "leaf" /\ t[4] = "payoffs"
        THEN LET r == LeafTokens(t, 5, ln,
                        [payoffs |-> EmptyDict, players_set |-> g.players_set,
                         err |-> NoError])
             IN  IF r.err.raised THEN [g1 EXCEPT !.err = r.err]
                 ELSE [g1 EXCEPT !.players_set = r.players_set,
                                 !.nodes = Put(@, path,
                          Node(path, "leaf", "None", <<>>, EmptyDict, r.payoffs))]
        ELSE IF Len(t) >= 4 /\ t[3] = "player"
        THEN LET j == FirstIndex(t, "actions", 5)
             IN  IF j = 0 THEN [g1 EXCEPT !.err = LineError(ln)]
                 ELSE IF j # 5 \/ t[4] \notin DOMAIN IntOf
                 THEN [g1 EXCEPT !.err = ConversionError(ln)]
                 ELSE [g1 EXCEPT !.players_set = @ \cup {IntOf[t[4]]},
                                 !.nodes = Put(@, path,
                          Node(path, "player", IntOf[t[4]], SubSeq(t, 6, Len(t)),
                               EmptyDict, EmptyDict))]
        ELSE [g1 EXCEPT !.err = LineError(ln)]

\* lines 56-158: one line of the file
ParseLine(g, t, ln) ==
    IF t = <<>> THEN g
    ELSE IF Len(t) >= 2 /\ t[1] = "infoset" THEN InfosetLine(g, t, ln)
    ELSE IF Len(t) >= 2 /\ t[1] = "node" THEN NodeLine(g, t, ln)
    ELSE [g EXCEPT !.err = LineError(ln)]

\* line 55: for line_num, line in enumerate(f, 1), stopping at the first raise
RECURSIVE ParseLines(_, _, _)
ParseLines(g, f, ln) ==
    IF ln > Len(f) \/ g.err.raised THEN g
    ELSE ParseLines(ParseLine(g, f[ln], ln), f, ln + 1)

\* sorted(list(players_set))
RECURSIVE Sorted(_)
Sorted(S) ==
    IF S = {} THEN <<>>
    ELSE LET m == CHOOSE a \in S : \A b \in S : a <= b
         IN  <<m>> \o Sorted(S \ {m})

ReadEfg ==
    /\ pstat = "new"
    /\ LET g == ParseLines([order |-> order, nodes |-> nodes, infosets |-> infosets,
                            hist_to_infoset |-> hist_to_infoset,
                            players_set |-> {}, err |-> NoError],
                           file, 1)
       IN  /\ order' = g.order
           /\ nodes' = g.nodes
           /\ infosets' = g.infosets
           /\ hist_to_infoset' = g.hist_to_infoset
           /\ perr' = g.err
           /\ pstat' = IF g.err.raised THEN "failed" ELSE "ok"
           /\ players' = IF g.err.raised THEN players ELSE Sorted(g.players_set)
    /\ UNCHANGED <<file, team_players, tbdag, solverVars>>

----------------------------------------------------------------------------
(* TeamBeliefDag.efg_to_tbdag(game, team_players): the body is pass, so the *)
(* call returns None whatever the game and the team are.                    *)

NoneValue == "None"

efg_to_tbdag(game, team) == NoneValue

EfgToTbdag(team) ==
    /\ pstat = "ok"
    /\ tbdag = "unbuilt"
    /\ tbdag' = efg_to_tbdag([order |-> order, nodes |-> nodes], team)
    /\ team_players' = team
    /\ UNCHANGED <<file, order, nodes, infosets, hist_to_infoset, players, pstat,
                   perr, solverVars>>

----------------------------------------------------------------------------
(* The loader's specification: Game() reads one file, then the builder is   *)
(* called with two distinct players of the game.                            *)

FileLines ==
    { <<>>,
      <<"infoset", "I1", "nodes", "/a", "/b">>,
      <<"node", "/", "player", "1", "actions", "a", "b">>,
      <<"node", "/a", "leaf", "payoffs", "1=1", "2=-1">>,
      <<"node", "/b", "leaf", "payoffs", "1=-1", "2=1">>,
      <<"node", "/c", "chance", "actions", "H=0.5", "T=0.5">>,
      <<"node", "/d", "bogus">>,
      <<"garbage">>,
      <<"node", "/e", "chance", "actions", "H">>,
      <<"node", "/f", "leaf", "payoffs", "1=x">>,
      <<"node", "/g">>,
      <<"infoset", "I2">>,
      <<"node", "/h", "player", "x", "actions", "a">> }

Files == UNION {[1..n -> FileLines] : n \in 0..MaxLines}

SolverIdle ==
    /\ dag = EmptyDict
    /\ regret = EmptyDict
    /\ x = EmptyDict
    /\ x_prime = EmptyDict
    /\ u = EmptyDict
    /\ gradient = EmptyDict
    /\ trace = <<>>
    /\ op = "init"
    /\ err = "none"
    /\ pre_regret = EmptyDict

InitGame ==
    /\ file \in Files
    /\ order = <<>>
    /\ nodes = EmptyDict
    /\ infosets = EmptyDict
    /\ hist_to_infoset = EmptyDict
    /\ players = <<>>
    /\ pstat = "new"
    /\ perr = NoError
    /\ team_players = <<>>
    /\ tbdag = "unbuilt"
    /\ SolverIdle

NextGame ==
    \/ ReadEfg
    \/ \E p, q \in Range(players) : p # q /\ EfgToTbdag(<<p, q>>)

SpecGame == InitGame /\ [][NextGame]_vars

----------------------------------------------------------------------------
(* Claims about Game.read_efg and TeamBeliefDag.efg_to_tbdag, checked under *)
(* SpecGame                                                                 *)

\* C9: when read_efg meets a line matching no directive, or a chance or leaf
\* token that is no well-formed key=value, it raises an error naming the line
\* number and the Game holds nothing of the lines read: order, nodes, infosets,
\* hist_to_infoset and players are empty (so every path of order is a key of
\* nodes).
C9_NoPartialParse ==
    pstat = "failed" =>
        /\ perr.numbered
        /\ order = <<>>
        /\ nodes = EmptyDict
        /\ infosets = EmptyDict
        /\ hist_to_infoset = EmptyDict
        /\ players = <<>>
        /\ Range(order) \subseteq DOMAIN nodes

\* the path a node's action leads to, in the files of FileLines
ChildPath(path, a) ==
    CASE path = "/" /\ a = "a" -> "/a"
      [] path = "/" /\ a = "b" -> "/b"
      [] OTHER -> "?"

\* the game read is a whole tree listed top-down, with at least two players
ValidGame ==
    /\ pstat = "ok"
    /\ order # <<>>
    /\ nodes[order[1]].node_type # "leaf"
    /\ \A i, j \in 1..Len(order) : order[i] = order[j] => i = j
    /\ Len(players) >= 2
    /\ \A i \in 1..Len(order) :
          LET n == nodes[order[i]]
          IN  n.node_type # "leaf" =>
                /\ n.actions # <<>>
                /\ \A k \in 1..Len(n.actions) :
                      \E j \in (i + 1)..Len(order) :
                          order[j] = ChildPath(order[i], n.actions[k])

\* C10: for a valid game and two distinct team players, what efg_to_tbdag
\* built is a structure with exactly one node of empty parent_of and a
\* topological order of its nodes (no cycle through child_of).
C10_SingleRootAcyclic ==
    (tbdag # "unbuilt" /\ ValidGame /\ team_players[1] # team_players[2]) =>
        /\ tbdag # NoneValue
        /\ Cardinality({n \in Range(tbdag.nodes) : tbdag.parent_of[n] = <<>>}) = 1
        /\ \E rank \in [Range(tbdag.nodes) -> 1..Len(tbdag.nodes)] :
              \A n \in Range(tbdag.nodes) : \A i \in 1..Len(tbdag.child_of[n]) :
                  rank[n] < rank[tbdag.child_of[n][i][2]]

====
